---- MODULE Spec2Model ----
(***************************************************************************)
(* Forward kernels of torch_底层算法实现/only_forward.py as TLA+ operators *)
(* over small dense arrays, and one specification per kernel family that   *)
(* draws the arguments of a call and applies the kernel to them.           *)
(*                                                                         *)
(* An array is a record [shape, data]: shape is the tuple of dimension     *)
(* sizes, data maps every 0-based index tuple to the element.  Elements    *)
(* are integers, or exact rationals <<num, den>> where the kernel divides. *)
(* A call ends in a value or in a raised exception [exc |-> name].         *)
(***************************************************************************)
EXTENDS Integers, Sequences, FiniteSets, TLC

VARIABLES
    args,           \* the arguments of the kernel call under way
    result,         \* what the call returned or raised; Pending before it
    running_mean,   \* batch norm: the caller-owned running mean buffer
    running_var,    \* batch norm: the caller-owned running variance buffer
    ncalls          \* batch norm: calls made so far on the shared buffers

vars == <<args, result, running_mean, running_var, ncalls>>

None == [none |-> TRUE]
Pending == [pending |-> TRUE]
Raise(name) == [exc |-> name]
IsRaise(r) == "exc" \in DOMAIN r
IsTensor(r) == "shape" \in DOMAIN r

(***************************************************************************)
(* Exact rational arithmetic                                               *)
(***************************************************************************)
Abs(n) == IF n < 0 THEN -n ELSE n

RECURSIVE GCD(_, _)
GCD(a, b) == IF b = 0 THEN a ELSE GCD(b, a % b)

Rat(n, d) ==
    LET s == IF d < 0 THEN -1 ELSE 1
        g == GCD(Abs(n), Abs(d))
    IN  <<(s * n) \div g, (s * d) \div g>>

RInt(n) == <<n, 1>>
RAdd(p, q) == Rat(p[1] * q[2] + q[1] * p[2], p[2] * q[2])
RSub(p, q) == Rat(p[1] * q[2] - q[1] * p[2], p[2] * q[2])
RMul(p, q) == Rat(p[1] * q[1], p[2] * q[2])
RDiv(p, q) == Rat(p[1] * q[2], p[2] * q[1])
RLess(p, q) == p[1] * q[2] < q[1] * p[2]
RLeq(p, q) == p[1] * q[2] <= q[1] * p[2]
RFloor(p) == p[1] \div p[2]
RCeil(p) == -((-p[1]) \div p[2])

(***************************************************************************)
(* Arrays                                                                  *)
(***************************************************************************)
RECURSIVE Indices(_)
Indices(shape) ==
    IF shape = <<>> THEN {<<>>}
    ELSE {<<i>> \o rest : i \in 0..(shape[1] - 1), rest \in Indices(Tail(shape))}

Tensor(shape, F(_)) == [shape |-> shape, data |-> [idx \in Indices(shape) |-> F(idx)]]

AllTensors(shape, Vals) == {[shape |-> shape, data |-> d] : d \in [Indices(shape) -> Vals]}

Dim(x) == Len(x.shape)

RECURSIVE SumFn(_)
SumFn(f) ==
    IF DOMAIN f = {} THEN 0
    ELSE LET e == CHOOSE e \in DOMAIN f : TRUE
         IN  f[e] + SumFn([d \in DOMAIN f \ {e} |-> f[d]])

RECURSIVE RSumFn(_)
RSumFn(f) ==
    IF DOMAIN f = {} THEN RInt(0)
    ELSE LET e == CHOOSE e \in DOMAIN f : TRUE
         IN  RAdd(f[e], RSumFn([d \in DOMAIN f \ {e} |-> f[d]]))

SumOver(S, F(_)) == SumFn([e \in S |-> F(e)])
RSumOver(S, F(_)) == RSumFn([e \in S |-> F(e)])

MaxOf(S) == CHOOSE m \in S : \A e \in S : e <= m

\* Broadcasting of two shapes, aligned at the trailing dimension.
PadShape(shape, r) == [k \in 1..r |-> IF k <= r - Len(shape) THEN 1 ELSE shape[k - (r - Len(shape))]]

Max2(a, b) == IF a >= b THEN a ELSE b

BroadcastOk(s1, s2) ==
    LET r == Max2(Len(s1), Len(s2))
        p1 == PadShape(s1, r)
        p2 == PadShape(s2, r)
    IN  \A k \in 1..r : p1[k] = p2[k] \/ p1[k] = 1 \/ p2[k] = 1

BroadcastShape(s1, s2) ==
    LET r == Max2(Len(s1), Len(s2))
        p1 == PadShape(s1, r)
        p2 == PadShape(s2, r)
    IN  [k \in 1..r |-> IF p1[k] = 1 THEN p2[k] ELSE p1[k]]

\* The index into an array of shape `shape` that a broadcast result index reads.
BroadcastIndex(idx, shape) ==
    LET off == Len(idx) - Len(shape)
    IN  [k \in 1..Len(shape) |-> IF shape[k] = 1 THEN 0 ELSE idx[k + off]]

\* x[:, None, None] of a 1-D array
Unsqueeze2(v) == Tensor(<<v.shape[1], 1, 1>>, LAMBDA idx : v.data[<<idx[1]>>])

\* The dimensions a reduction over _dim keeps, in order.
KeptDims(r, _dim) == SelectSeq([k \in 1..r |-> k - 1], LAMBDA d : d \notin _dim)

ReducedShape(x, _dim) ==
    LET kept == KeptDims(Dim(x), _dim) IN [k \in 1..Len(kept) |-> x.shape[kept[k] + 1]]

\* The elements of x that a reduction over _dim folds into output index o.
Group(x, _dim, o) ==
    LET kept == KeptDims(Dim(x), _dim)
    IN  {idx \in Indices(x.shape) : \A k \in 1..Len(kept) : idx[kept[k] + 1] = o[k]}

\* The mean of the elements of x at the indices g.
GroupMean(x, g) == Rat(SumOver(g, LAMBDA idx : x.data[idx]), Cardinality(g))

\* The sum over g of the squared deviations from the group's mean.
GroupDeviation(x, g) ==
    LET m == GroupMean(x, g)
    IN  RSumOver(g, LAMBDA idx : RMul(RSub(RInt(x.data[idx]), m), RSub(RInt(x.data[idx]), m)))

\* torch.mean(x, _dim)
torch_mean(x, _dim) ==
    Tensor(ReducedShape(x, _dim), LAMBDA o : GroupMean(x, Group(x, _dim, o)))

\* torch.var(x, _dim, unbiased): divisor n - 1 when unbiased, else n
torch_var(x, _dim, unbiased) ==
    Tensor(ReducedShape(x, _dim),
           LAMBDA o : LET g == Group(x, _dim, o)
                      IN  RDiv(GroupDeviation(x, g),
                               RInt(Cardinality(g) - (IF unbiased THEN 1 ELSE 0))))

\* The row-major offset of an index.
RECURSIVE Offset(_, _)
Offset(idx, shape) ==
    IF idx = <<>> THEN 0
    ELSE Offset(SubSeq(idx, 1, Len(idx) - 1), SubSeq(shape, 1, Len(shape) - 1)) * shape[Len(shape)]
         + idx[Len(idx)]

\* A Python scalar as a rank-0 array.
Scalar(v) == [shape |-> <<>>, data |-> (<<>> :> v)]

\* F applied to every element; an exception raised while computing a passes on.
Map(a, F(_)) ==
    IF IsRaise(a) THEN a ELSE Tensor(a.shape, LAMBDA idx : F(a.data[idx]))

\* a Op b elementwise with broadcasting.  Python evaluates a, then b, then
\* the operator: the first exception in that order is the one raised.
Zip(a, b, Op(_, _)) ==
    IF IsRaise(a) THEN a
    ELSE IF IsRaise(b) THEN b
    ELSE IF ~BroadcastOk(a.shape, b.shape) THEN Raise("RuntimeError")
    ELSE Tensor(BroadcastShape(a.shape, b.shape),
                LAMBDA idx : Op(a.data[BroadcastIndex(idx, a.shape)],
                                b.data[BroadcastIndex(idx, b.shape)]))

Plus(a, b) == a + b
BAdd(a, b) == Zip(a, b, Plus)

\* x @ weight.t(): (N, In) by (Out, In) to (N, Out); the inner sizes must agree.
MatMulT(x, weight) ==
    IF IsRaise(x) THEN x
    ELSE IF IsRaise(weight) THEN weight
    ELSE IF x.shape[2] # weight.shape[2] THEN Raise("RuntimeError")
    ELSE Tensor(<<x.shape[1], weight.shape[1]>>,
                LAMBDA idx : SumOver(0..(x.shape[2] - 1),
                                     LAMBDA k : x.data[<<idx[1], k>>] * weight.data[<<idx[2], k>>]))

(***************************************************************************)
(* _linear                                                                 *)
(***************************************************************************)
MaxBatch == 2
MaxFeatures == 2
LinearVals == {-1, 1}
BiasVals == {0, 1}

\* return x @ weight.t() + bias if bias is not None else 0.
\* The conditional expression binds weaker than +: the else branch is the
\* whole return value.
_linear(x, weight, bias) ==
    IF bias # None THEN BAdd(MatMulT(x, weight), bias)
    ELSE [float |-> 0]

LinearArgs ==
    UNION {
        {[op |-> "linear", x |-> x, weight |-> w, bias |-> b] :
            x \in AllTensors(<<n, in>>, LinearVals),
            w \in AllTensors(<<out, in>>, LinearVals),
            b \in AllTensors(<<out>>, BiasVals) \cup {None}} :
        n \in 1..MaxBatch, in \in 1..MaxFeatures, out \in 1..MaxFeatures}

InitLinear ==
    /\ args \in LinearArgs
    /\ result = Pending
    /\ running_mean = <<>> /\ running_var = <<>> /\ ncalls = 0

LinearCall ==
    /\ args.op = "linear" /\ result = Pending
    /\ result' = _linear(args.x, args.weight, args.bias)
    /\ UNCHANGED <<args, running_mean, running_var, ncalls>>

SpecLinear == InitLinear /\ [][LinearCall]_vars

Zeros(shape) == Tensor(shape, LAMBDA idx : 0)

\* C1: with bias absent the linear kernel returns x @ weight^T, an array of
\* shape (N, Out), the same as with an all-zero bias.
C1_LinearNoBias ==
    (args.op = "linear" /\ result # Pending /\ args.bias = None) =>
        /\ result = MatMulT(args.x, args.weight)
        /\ result = _linear(args.x, args.weight, Zeros(<<args.weight.shape[1]>>))

(***************************************************************************)
(* _batch_norm                                                             *)
(*                                                                         *)
(* An output element is kept as the term [x, mean, var, weight, bias] that *)
(* stands for (x - mean) * rsqrt(var + eps) * weight + bias: rsqrt is not  *)
(* rational, the operands it is applied to are.                            *)
(***************************************************************************)
MaxCalls == 2
NumChannels == 2
Momenta == {<<1, 10>>, <<1, 2>>}

\* running = (1 - momentum) * running + momentum * estimate, per channel
UpdateRunning(running, momentum, estimate) ==
    Tensor(running.shape,
           LAMBDA c : RAdd(RMul(RSub(RInt(1), momentum), running.data[c]),
                           RMul(momentum, estimate.data[c])))

\* (x - mean) * torch.rsqrt(var + eps) * weight + bias, by broadcasting
Normalize(x, mean, var, weight, bias) ==
    IF ~BroadcastOk(x.shape, mean.shape) THEN Raise("RuntimeError")
    ELSE Tensor(BroadcastShape(x.shape, mean.shape),
                LAMBDA idx :
                    LET c == BroadcastIndex(idx, mean.shape)
                    IN  [x |-> x.data[BroadcastIndex(idx, x.shape)],
                         mean |-> mean.data[c], var |-> var.data[c],
                         weight |-> weight.data[c], bias |-> bias.data[c]])

\* if x.dim() == 4: mean, var, weight, bias = ...[:, None, None]
BatchNormOutput(x, mean, var, weight, bias) ==
    IF Dim(x) = 4
    THEN Normalize(x, Unsqueeze2(mean), Unsqueeze2(var), Unsqueeze2(weight), Unsqueeze2(bias))
    ELSE Normalize(x, mean, var, weight, bias)

\* A variant that folds the batch statistics into the buffers in every mode.
BatchNormAlwaysUpdates(x, weight, bias, rm, rv, training, momentum) ==
    IF Dim(x) \notin {2, 4}
    THEN [out |-> Raise("ValueError"), running_mean |-> rm, running_var |-> rv]
    ELSE LET _dim == IF Dim(x) = 2 THEN {0} ELSE {0, 2, 3}
         IN  [out |-> BatchNormOutput(x, rm, rv, weight, bias),
              running_mean |-> UpdateRunning(rm, momentum, torch_mean(x, _dim)),
              running_var |-> UpdateRunning(rv, momentum, torch_var(x, _dim, TRUE))]

\* A variant that updates running_var with the biased variance.
BatchNormBiasedUpdate(x, weight, bias, rm, rv, training, momentum) ==
    IF training
    THEN IF Dim(x) \notin {2, 4}
         THEN [out |-> Raise("ValueError"), running_mean |-> rm, running_var |-> rv]
         ELSE LET _dim == IF Dim(x) = 2 THEN {0} ELSE {0, 2, 3}
                  mean == torch_mean(x, _dim)
                  var == torch_var(x, _dim, FALSE)
              IN  [out |-> BatchNormOutput(x, mean, var, weight, bias),
                   running_mean |-> UpdateRunning(rm, momentum, mean),
                   running_var |-> UpdateRunning(rv, momentum, var)]
    ELSE [out |-> BatchNormOutput(x, rm, rv, weight, bias),
          running_mean |-> rm, running_var |-> rv]

\* The call's output (or the exception it raises) and the buffers after it.
_batch_norm(x, weight, bias, rm, rv, training, momentum) ==
    IF training
    THEN IF Dim(x) \notin {2, 4}
         THEN [out |-> Raise("ValueError"), running_mean |-> rm, running_var |-> rv]
         ELSE LET _dim == IF Dim(x) = 2 THEN {0} ELSE {0, 2, 3}
                  mean == torch_mean(x, _dim)
                  eval_mean == mean
                  eval_var == torch_var(x, _dim, TRUE)
                  var == torch_var(x, _dim, FALSE)
              IN  [out |-> BatchNormOutput(x, mean, var, weight, bias),
                   running_mean |-> UpdateRunning(rm, momentum, eval_mean),
                   running_var |-> UpdateRunning(rv, momentum, eval_var)]
    ELSE [out |-> BatchNormOutput(x, rm, rv, weight, bias),
          running_mean |-> rm, running_var |-> rv]

\* Inputs of rank 1 to 4 with NumChannels channels; the rank-2 and rank-4
\* shapes have two samples per channel, so the unbiased variance is defined.
\* The rank-3 shape does not broadcast against (NumChannels,); the rank-1
\* shape does.
BNShapes ==
    {<<NumChannels>>, <<2, NumChannels>>, <<1, 1, NumChannels + 1>>, <<1, NumChannels, 2, 1>>}

\* The elements 0, 1, 2, ... in row-major order, and their squares.
BNInputs(shape) ==
    {Tensor(shape, LAMBDA idx : Offset(idx, shape)),
     Tensor(shape, LAMBDA idx : Offset(idx, shape) * Offset(idx, shape))}

BNAffine ==
    {[weight |-> Tensor(<<NumChannels>>, LAMBDA c : 2 + c[1]),
      bias |-> Tensor(<<NumChannels>>, LAMBDA c : 1 - c[1])]}

InitBN ==
    /\ args = None
    /\ result = Pending
    /\ running_mean = Tensor(<<NumChannels>>, LAMBDA c : RInt(0))
    /\ running_var = Tensor(<<NumChannels>>, LAMBDA c : RInt(1))
    /\ ncalls = 0

BatchNormCall ==
    /\ ncalls < MaxCalls
    /\ \E shape \in BNShapes, training \in BOOLEAN, momentum \in Momenta, aff \in BNAffine :
         \E x \in BNInputs(shape) :
            LET r == _batch_norm(x, aff.weight, aff.bias, running_mean, running_var,
                                 training, momentum)
            IN  /\ args' = [op |-> "batch_norm", x |-> x, weight |-> aff.weight,
                            bias |-> aff.bias, running_mean |-> running_mean,
                            running_var |-> running_var, training |-> training,
                            momentum |-> momentum]
                /\ result' = r.out
                /\ running_mean' = r.running_mean
                /\ running_var' = r.running_var
                /\ ncalls' = ncalls + 1

SpecBN == InitBN /\ [][BatchNormCall]_vars

IsBN == args # None /\ args.op = "batch_norm"

\* The channel an element of a rank-2 or rank-4 input belongs to.
ChannelOf(idx) == <<idx[2]>>

\* C2: a call with training=False leaves both buffers as they were before
\* the call and normalizes every element with the supplied running values.
C2_InferenceReadsOnly ==
    (IsBN /\ ~args.training) =>
        /\ running_mean = args.running_mean
        /\ running_var = args.running_var
        /\ (IsTensor(result) /\ Dim(args.x) \in {2, 4}) =>
              \A idx \in Indices(args.x.shape) :
                  /\ result.data[idx].mean = args.running_mean.data[ChannelOf(idx)]
                  /\ result.data[idx].var = args.running_var.data[ChannelOf(idx)]

C2_Witness ==
    /\ IsBN /\ ~args.training /\ ncalls = 2 /\ IsTensor(result)
    /\ args.running_mean # Tensor(<<NumChannels>>, LAMBDA c : RInt(0))

\* The samples of channel c of a rank-2 or rank-4 input, as a bag of index |-> value.
Samples(x, c) == {idx \in Indices(x.shape) : ChannelOf(idx) = c}
BatchSum(x, c) == SumOver(Samples(x, c), LAMBDA idx : x.data[idx])
BatchSquares(x, c) == SumOver(Samples(x, c), LAMBDA idx : x.data[idx] * x.data[idx])
BatchCount(x, c) == Cardinality(Samples(x, c))
BatchMean(x, c) == Rat(BatchSum(x, c), BatchCount(x, c))
\* sum of squared deviations = sum(x^2) - sum(x)^2 / n
BatchDeviation(x, c) ==
    RSub(RInt(BatchSquares(x, c)), Rat(BatchSum(x, c) * BatchSum(x, c), BatchCount(x, c)))
Blend(momentum, old, new) ==
    RAdd(RMul(RSub(RInt(1), momentum), old), RMul(momentum, new))

\* C3: a training call on a rank-2 or rank-4 input sets, per channel,
\* running_mean to (1-momentum)*running_mean + momentum*batch_mean and
\* running_var to (1-momentum)*running_var + momentum*(unbiased variance,
\* divisor N-1), and normalizes its output with the batch mean and the
\* biased variance (divisor N).
C3_TrainingUpdate ==
    (IsBN /\ args.training /\ Dim(args.x) \in {2, 4}) =>
        /\ \A c \in Indices(<<NumChannels>>) :
              /\ running_mean.data[c] =
                    Blend(args.momentum, args.running_mean.data[c], BatchMean(args.x, c))
              /\ running_var.data[c] =
                    Blend(args.momentum, args.running_var.data[c],
                          RDiv(BatchDeviation(args.x, c), RInt(BatchCount(args.x, c) - 1)))
        /\ IsTensor(result)
        /\ result.shape = args.x.shape
        /\ \A idx \in Indices(args.x.shape) :
              /\ result.data[idx].x = args.x.data[idx]
              /\ result.data[idx].mean = BatchMean(args.x, ChannelOf(idx))
              /\ result.data[idx].var =
                    RDiv(BatchDeviation(args.x, ChannelOf(idx)),
                         RInt(BatchCount(args.x, ChannelOf(idx))))

\* A second training call, on a batch whose biased and unbiased variances differ.
C3_Witness ==
    /\ IsBN /\ args.training /\ ncalls = 2 /\ Dim(args.x) = 4
    /\ \E c \in Indices(<<NumChannels>>) :
          /\ BatchDeviation(args.x, c) # RInt(0)
          /\ running_var.data[c] # args.running_var.data[c]
          /\ args.running_var.data[c] # RInt(1)

\* C4: a batch-norm call raises whenever the input rank is neither 2 nor 4,
\* in training mode and in inference mode alike.
C4_RankChecked ==
    (IsBN /\ Dim(args.x) \notin {2, 4}) => IsRaise(result)

(***************************************************************************)
(* _rnn_cell, _lstm_cell, _gru_cell                                        *)
(*                                                                         *)
(* The matrix products and bias additions are computed on integers.  The   *)
(* transcendental functions and what is computed from their values are     *)
(* kept as terms: <<"tanh", v>>, <<"sigmoid", v>>, <<"*", a, b>>, ...      *)
(***************************************************************************)
MaxHidden == 2
MaxCellBatch == 2
MaxCellIn == 2

PyBool(b) == [bool |-> b]
PyInt(n) == [int |-> n]
\* isinstance(v, bool)
IsBool(v) == "bool" \in DOMAIN v

Sigmoid(v) == <<"sigmoid", v>>
Tanh(v) == <<"tanh", v>>
Mul(a, b) == <<"*", a, b>>
Add(a, b) == <<"+", a, b>>
OneMinus(z) == <<"1-", z>>

\* weight[k], k counted from 0
GetItem(weight, k) == IF k + 1 <= Len(weight) THEN weight[k + 1] ELSE Raise("IndexError")

Min2(a, b) == IF a <= b THEN a ELSE b

\* t[a:b] along the first axis; a slice clamps to the axis length
Slice0(t, a, b) ==
    IF IsRaise(t) THEN t
    ELSE LET lo == Min2(a, t.shape[1])
             hi == Max2(lo, Min2(b, t.shape[1]))
         IN  Tensor(<<hi - lo>> \o Tail(t.shape),
                    LAMBDA idx : t.data[<<idx[1] + lo>> \o Tail(idx)])

\* (weight[k][a:b] if bias is not None else 0)
BiasSlice(weight, k, bias, a, b) ==
    IF bias # None THEN Slice0(GetItem(weight, k), a, b) ELSE Scalar(0)

\* (weight[k] if bias is not None else 0)
BiasTerm(weight, k, bias) ==
    IF bias # None THEN GetItem(weight, k) ELSE Scalar(0)

\* x0 @ weight[0][a:b].t() + bias_ih[a:b] + h0 @ weight[1][a:b].t() + bias_hh[a:b]
Gate(x0, h0, weight, bias, a, b) ==
    BAdd(BAdd(BAdd(MatMulT(x0, Slice0(weight[1], a, b)), BiasSlice(weight, 2, bias, a, b)),
              MatMulT(h0, Slice0(weight[2], a, b))),
         BiasSlice(weight, 3, bias, a, b))

\* A variant whose assert does not look at the type of the bias flag.
CellAssertBatchOnly(x0, states, bias) ==
    \A s \in states : x0.shape[1] = s.shape[1]

\* assert x0.shape[0] == h0.shape[0] (== c0.shape[0]) and isinstance(bias, bool)
CellAssert(x0, states, bias) ==
    /\ \A s \in states : x0.shape[1] = s.shape[1]
    /\ IsBool(bias)

_rnn_cell(x0, h0_, weight, bias) ==
    LET batch_size == x0.shape[1]
        h0 == IF h0_ = None THEN Zeros(<<batch_size, weight[1].shape[1]>>) ELSE h0_
    IN  IF ~CellAssert(x0, {h0}, bias) THEN Raise("AssertionError")
        ELSE Map(BAdd(BAdd(BAdd(MatMulT(x0, weight[1]), BiasTerm(weight, 2, bias)),
                           MatMulT(h0, weight[2])),
                      BiasTerm(weight, 3, bias)),
                 Tanh)

_lstm_cell(x0, h0_, c0_, weight, bias) ==
    LET batch_size == x0.shape[1]
        c_hide == weight[1].shape[1] \div 4
        h0 == IF h0_ = None THEN Zeros(<<batch_size, c_hide>>) ELSE h0_
        c0 == IF c0_ = None THEN Zeros(<<batch_size, c_hide>>) ELSE c0_
        i == Map(Gate(x0, h0, weight, bias, 0, c_hide), Sigmoid)
        f == Map(Gate(x0, h0, weight, bias, c_hide, c_hide * 2), Sigmoid)
        g == Map(Gate(x0, h0, weight, bias, c_hide * 2, c_hide * 3), Tanh)
        o == Map(Gate(x0, h0, weight, bias, c_hide * 3, c_hide * 4), Sigmoid)
        c1 == Zip(Zip(f, c0, Mul), Zip(i, g, Mul), Add)
        h1 == Zip(o, Map(c1, Tanh), Mul)
    IN  IF ~CellAssert(x0, {h0, c0}, bias) THEN Raise("AssertionError")
        ELSE IF IsRaise(i) THEN i
        ELSE IF IsRaise(f) THEN f
        ELSE IF IsRaise(g) THEN g
        ELSE IF IsRaise(o) THEN o
        ELSE IF IsRaise(c1) THEN c1
        ELSE IF IsRaise(h1) THEN h1
        ELSE [h1 |-> h1, c1 |-> c1]

_gru_cell(x0, h0_, weight, bias) ==
    LET batch_size == x0.shape[1]
        c_hide == weight[1].shape[1] \div 3
        h0 == IF h0_ = None THEN Zeros(<<batch_size, c_hide>>) ELSE h0_
        r == Map(Gate(x0, h0, weight, bias, 0, c_hide), Sigmoid)
        z == Map(Gate(x0, h0, weight, bias, c_hide, c_hide * 2), Sigmoid)
        n == Map(Zip(BAdd(MatMulT(x0, Slice0(weight[1], c_hide * 2, c_hide * 3)),
                          BiasSlice(weight, 2, bias, c_hide * 2, c_hide * 3)),
                     Zip(r,
                         BAdd(MatMulT(h0, Slice0(weight[2], c_hide * 2, c_hide * 3)),
                              BiasSlice(weight, 3, bias, c_hide * 2, c_hide * 3)),
                         Mul),
                     Add),
                 Tanh)
        h1 == Zip(Zip(Map(z, OneMinus), n, Mul), Zip(z, h0, Mul), Add)
    IN  IF ~CellAssert(x0, {h0}, bias) THEN Raise("AssertionError")
        ELSE IF IsRaise(r) THEN r
        ELSE IF IsRaise(z) THEN z
        ELSE h1

\* The number of gates stacked along the first axis of a cell's arrays.
Gates(cell) == CASE cell = "rnn" -> 1 [] cell = "lstm" -> 4 [] cell = "gru" -> 3

\* The shapes the docstrings give for batch n, input size cin, hidden size ch.
CellShapes(cell, n, cin, ch) ==
    [x0 |-> <<n, cin>>, h0 |-> <<n, ch>>, c0 |-> <<n, ch>>,
     w_ih |-> <<Gates(cell) * ch, cin>>, w_hh |-> <<Gates(cell) * ch, ch>>,
     b_ih |-> <<Gates(cell) * ch>>, b_hh |-> <<Gates(cell) * ch>>]

\* The documented shapes, and each of them with one size off by one.
ShapeVariants(sh) ==
    {sh} \cup
    {[sh EXCEPT ![f][k] = @ + d] :
        f \in {"w_ih", "w_hh", "h0", "c0"}, k \in 1..2, d \in {1}} \cup
    {[sh EXCEPT ![f][1] = @ + 1] : f \in {"b_ih", "b_hh"}} \cup
    {[sh EXCEPT !.b_ih = <<1>>], [sh EXCEPT !.w_ih[1] = @ - 1]}

\* The array of a shape with elements seed, seed + 1, ... in row-major order.
Fill(shape, seed) == Tensor(shape, LAMBDA idx : Offset(idx, shape) + seed)

BiasFlags == {PyBool(TRUE), PyBool(FALSE), None, PyInt(1)}

\* The arguments of a call: arrays of the shapes sh, h0 and c0 given or
\* omitted, a bundle of len arrays, and the bias flag.
CellCallArgs(cell, sh, given, len, flag) ==
    [op |-> cell, x0 |-> Fill(sh.x0, 1),
     h0 |-> IF given[1] THEN Fill(sh.h0, 2) ELSE None,
     c0 |-> IF given[2] THEN Fill(sh.c0, -1) ELSE None,
     weight |-> IF len = 4
                THEN <<Fill(sh.w_ih, -2), Fill(sh.w_hh, 1), Fill(sh.b_ih, 3), Fill(sh.b_hh, 5)>>
                ELSE <<Fill(sh.w_ih, -2), Fill(sh.w_hh, 1)>>,
     bias |-> flag]

InitCell ==
    /\ \E cell \in {"rnn", "lstm", "gru"}, n \in 1..MaxCellBatch,
          cin \in 1..MaxCellIn, ch \in 1..MaxHidden :
          \E sh \in ShapeVariants(CellShapes(cell, n, cin, ch)),
             given \in IF cell = "lstm" THEN BOOLEAN \X BOOLEAN ELSE BOOLEAN \X {FALSE},
             len \in {2, 4}, flag \in BiasFlags :
             args = CellCallArgs(cell, sh, given, len, flag)
    /\ result = Pending
    /\ running_mean = <<>> /\ running_var = <<>> /\ ncalls = 0

RnnCellCall ==
    /\ args.op = "rnn" /\ result = Pending
    /\ result' = _rnn_cell(args.x0, args.h0, args.weight, args.bias)
    /\ UNCHANGED <<args, running_mean, running_var, ncalls>>

LstmCellCall ==
    /\ args.op = "lstm" /\ result = Pending
    /\ result' = _lstm_cell(args.x0, args.h0, args.c0, args.weight, args.bias)
    /\ UNCHANGED <<args, running_mean, running_var, ncalls>>

GruCellCall ==
    /\ args.op = "gru" /\ result = Pending
    /\ result' = _gru_cell(args.x0, args.h0, args.weight, args.bias)
    /\ UNCHANGED <<args, running_mean, running_var, ncalls>>

NextCell == RnnCellCall \/ LstmCellCall \/ GruCellCall

SpecCell == InitCell /\ [][NextCell]_vars

IsCell == args.op \in {"rnn", "lstm", "gru"}
CellDone == IsCell /\ result # Pending

\* The hidden size inferred from the input weight: weight[0].shape[0] // gates.
InferredHidden == args.weight[1].shape[1] \div Gates(args.op)

\* The shapes the docstring gives for the call's batch, input size and
\* inferred hidden size.
DocShapes == CellShapes(args.op, args.x0.shape[1], args.x0.shape[2], InferredHidden)

\* Every array the call was given has the shape its docstring gives.
ShapesConsistent ==
    /\ args.weight[1].shape = DocShapes.w_ih
    /\ args.weight[2].shape = DocShapes.w_hh
    /\ Len(args.weight) = 4 =>
          args.weight[3].shape = DocShapes.b_ih /\ args.weight[4].shape = DocShapes.b_hh
    /\ args.h0 # None => args.h0.shape = DocShapes.h0
    /\ args.c0 # None => args.c0.shape = DocShapes.c0

\* C5: with bias=False and a bundle of 2 arrays each cell completes its step
\* and computes the update without bias terms; rnn_cell returns
\* tanh(x0 Wih^T + h0 Whh^T).
C5_NoBiasBundle ==
    (CellDone /\ args.bias = PyBool(FALSE) /\ Len(args.weight) = 2 /\ ShapesConsistent) =>
        /\ ~IsRaise(result)
        /\ (args.op = "rnn" /\ args.h0 # None) =>
              result = Map(BAdd(MatMulT(args.x0, args.weight[1]),
                                MatMulT(args.h0, args.weight[2])), Tanh)

\* C6 as stated: each cell fails when the array shapes are inconsistent with
\* the hidden size inferred from the input weight, and when the bias flag is
\* not a boolean.
C6_ShapesValidated ==
    (CellDone /\ (~ShapesConsistent \/ ~IsBool(args.bias))) => IsRaise(result)

\* The width of the hidden state the call multiplies by the hidden weight.
HiddenWidth ==
    IF args.h0 # None THEN args.h0.shape[2]
    ELSE IF args.op = "rnn" THEN args.weight[1].shape[1] ELSE InferredHidden

\* C6 as amended: each cell fails when the bias flag is not a boolean, and
\* when a matrix product of the update is impossible (the input weight's
\* column count differs from x0's, or the hidden weight's from the hidden
\* state's); other shape inconsistencies are not validated.
C6_FlagAndProductsChecked ==
    CellDone =>
        /\ ~IsBool(args.bias) => result = Raise("AssertionError")
        /\ (\/ args.weight[1].shape[2] # args.x0.shape[2]
            \/ args.weight[2].shape[2] # HiddenWidth) => IsRaise(result)

\* A call with the documented shapes and all four arrays fails on its flag.
C6_Witness ==
    /\ CellDone /\ ShapesConsistent /\ Len(args.weight) = 4 /\ args.op = "lstm"
    /\ args.bias = PyInt(1) /\ result = Raise("AssertionError")

\* An lstm call whose stacked gate axis is 4 * hidden + 1 long is accepted.
C6_AcceptedInconsistency ==
    /\ CellDone /\ args.op = "lstm" /\ ~IsRaise(result)
    /\ args.weight[1].shape[1] % 4 # 0

(***************************************************************************)
(* _max_pool2d, _avg_pool2d                                                *)
(***************************************************************************)
MaxPoolDim == 4
MaxKernel == 3
MaxPadding == 2

PyTuple(t) == [tuple |-> t]
\* if isinstance(v, int): v = v, v
AsPair(v) == IF "int" \in DOMAIN v THEN <<v.int, v.int>> ELSE v.tuple

\* The indices slice(a, b) selects on an axis of length n.
PySlice(a, b, n) ==
    LET lo == IF a < 0 THEN Max2(a + n, 0) ELSE Min2(a, n)
        hi == IF b < 0 THEN Max2(b + n, 0) ELSE Min2(b, n)
    IN  lo..(hi - 1)

\* x.shape[:-2]
Leading(x) == SubSeq(x.shape, 1, Dim(x) - 2)
Height(x) == x.shape[Dim(x) - 1]
Width(x) == x.shape[Dim(x)]

\* The elements x[lead, rows, cols].
Window(x, lead, rows, cols) == {x.data[lead \o <<r, c>>] : r \in rows, c \in cols}

\* The rows (cols) of the input that output cell i (j) of max pooling reads.
MaxPoolRows(x, k, s, p, i) ==
    LET h_start == i * s[1] - p[1]
    IN  PySlice(IF h_start >= 0 THEN h_start ELSE 0, h_start + k[1], Height(x))

MaxPoolCols(x, k, s, p, j) ==
    LET w_start == j * s[2] - p[2]
    IN  PySlice(IF w_start >= 0 THEN w_start ELSE 0, w_start + k[2], Width(x))

\* A variant in which the padded zeros take part in the max.
MaxPoolCellPadded(x, lead, k, s, p, i, j) ==
    LET rows == (i * s[1] - p[1])..(i * s[1] - p[1] + k[1] - 1)
        cols == (j * s[2] - p[2])..(j * s[2] - p[2] + k[2] - 1)
    IN  MaxOf({IF r \in 0..(Height(x) - 1) /\ c \in 0..(Width(x) - 1)
               THEN x.data[lead \o <<r, c>>] ELSE 0 : r \in rows, c \in cols})

\* torch.max(torch.max(x[..., h_pos, w_pos], dim=-2)[0], dim=-1)[0] at one leading index
MaxPoolCell(x, lead, k, s, p, i, j) ==
    MaxOf(Window(x, lead, MaxPoolRows(x, k, s, p, i), MaxPoolCols(x, k, s, p, j)))

_max_pool2d(x, kernel_size_, stride_, padding_) ==
    LET kernel_size == AsPair(kernel_size_)
        stride == AsPair(IF stride_ = None THEN kernel_size_ ELSE stride_)
        padding == AsPair(padding_)
        h_out == (Height(x) + 2 * padding[1] - kernel_size[1]) \div stride[1] + 1
        w_out == (Width(x) + 2 * padding[2] - kernel_size[2]) \div stride[2] + 1
    IN  IF Dim(x) \notin {3, 4} THEN Raise("AssertionError")
        ELSE IF h_out < 0 \/ w_out < 0 THEN Raise("RuntimeError")
        ELSE IF \E i \in 0..(h_out - 1), j \in 0..(w_out - 1) :
                    \/ MaxPoolRows(x, kernel_size, stride, padding, i) = {}
                    \/ MaxPoolCols(x, kernel_size, stride, padding, j) = {}
             THEN Raise("RuntimeError")
        ELSE Tensor(Leading(x) \o <<h_out, w_out>>,
                    LAMBDA idx :
                        MaxPoolCell(x, SubSeq(idx, 1, Len(idx) - 2), kernel_size, stride,
                                    padding, idx[Len(idx) - 1], idx[Len(idx)]))

\* F.pad(x, (left, right, top, bottom)) with zeros
F_pad(x, left, right, top, bottom) ==
    Tensor(Leading(x) \o <<Height(x) + top + bottom, Width(x) + left + right>>,
           LAMBDA idx :
               LET r == idx[Len(idx) - 1] - top
                   c == idx[Len(idx)] - left
               IN  IF r \in 0..(Height(x) - 1) /\ c \in 0..(Width(x) - 1)
                   THEN x.data[SubSeq(idx, 1, Len(idx) - 2) \o <<r, c>>]
                   ELSE 0)

\* torch.mean(x[..., h_pos, w_pos], dim=(-2, -1)) at one leading index
MeanOfWindow(x, lead, rows, cols) ==
    Rat(SumOver(rows \X cols, LAMBDA rc : x.data[lead \o <<rc[1], rc[2]>>]),
        Cardinality(rows \X cols))

\* A variant that averages over the unpadded part of each window only.
AvgPoolCellUnpadded(x, lead, k, s, p, i, j) ==
    LET rows == {r \in (i * s[1])..(i * s[1] + k[1] - 1) :
                    r - p[3] \in 0..(Height(x) - p[3] - p[4] - 1)}
        cols == {c \in (j * s[2])..(j * s[2] + k[2] - 1) :
                    c - p[1] \in 0..(Width(x) - p[1] - p[2] - 1)}
    IN  IF rows = {} \/ cols = {} THEN RInt(0) ELSE MeanOfWindow(x, lead, rows, cols)

\* One output cell of average pooling over the padded input x; p is the
\* (left, right, top, bottom) padding x was given.
AvgPoolCell(x, lead, k, s, p, i, j) ==
    MeanOfWindow(x, lead, PySlice(i * s[1], i * s[1] + k[1], Height(x)),
                 PySlice(j * s[2], j * s[2] + k[2], Width(x)))

_avg_pool2d(x_, kernel_size_, stride_, padding_) ==
    LET kernel_size == AsPair(kernel_size_)
        stride == AsPair(IF stride_ = None THEN kernel_size_ ELSE stride_)
        padding == IF "int" \in DOMAIN padding_
                   THEN <<padding_.int, padding_.int, padding_.int, padding_.int>>
                   ELSE <<padding_.tuple[2], padding_.tuple[2], padding_.tuple[1], padding_.tuple[1]>>
        x == F_pad(x_, padding[1], padding[2], padding[3], padding[4])
        h_out == (Height(x) - kernel_size[1]) \div stride[1] + 1
        w_out == (Width(x) - kernel_size[2]) \div stride[2] + 1
    IN  IF Dim(x_) \notin {3, 4} THEN Raise("AssertionError")
        ELSE IF h_out < 0 \/ w_out < 0 THEN Raise("RuntimeError")
        ELSE Tensor(Leading(x) \o <<h_out, w_out>>,
                    LAMBDA idx :
                        AvgPoolCell(x, SubSeq(idx, 1, Len(idx) - 2), kernel_size, stride,
                                    padding, idx[Len(idx) - 1], idx[Len(idx)]))

KernelSizes == {PyInt(k) : k \in 1..MaxKernel} \cup {PyTuple(<<1, 2>>), PyTuple(<<2, 1>>)}
Strides == {None, PyInt(1), PyInt(2), PyTuple(<<2, 1>>)}
Paddings == {PyInt(p) : p \in 0..MaxPadding} \cup {PyTuple(<<0, 1>>)}

\* Inputs with distinct elements ascending or descending in row-major order,
\* all negative or all positive, and inputs with all elements equal.
PoolInputs(shape) ==
    {Fill(shape, 1), Fill(shape, -40),
     Tensor(shape, LAMBDA idx : 0 - Offset(idx, shape) - 1),
     Tensor(shape, LAMBDA idx : 1), Tensor(shape, LAMBDA idx : -3)}

InitPool ==
    /\ \E op \in {"max_pool2d", "avg_pool2d"}, lead \in {<<2>>, <<1, 1>>},
          h \in 1..MaxPoolDim, w \in 1..MaxPoolDim :
          \E x \in PoolInputs(lead \o <<h, w>>),
             k \in KernelSizes, s \in Strides, p \in Paddings :
             args = [op |-> op, x |-> x, kernel_size |-> k, stride |-> s, padding |-> p]
    /\ result = Pending
    /\ running_mean = <<>> /\ running_var = <<>> /\ ncalls = 0

MaxPoolCall ==
    /\ args.op = "max_pool2d" /\ result = Pending
    /\ result' = _max_pool2d(args.x, args.kernel_size, args.stride, args.padding)
    /\ UNCHANGED <<args, running_mean, running_var, ncalls>>

AvgPoolCall ==
    /\ args.op = "avg_pool2d" /\ result = Pending
    /\ result' = _avg_pool2d(args.x, args.kernel_size, args.stride, args.padding)
    /\ UNCHANGED <<args, running_mean, running_var, ncalls>>

NextPool == MaxPoolCall \/ AvgPoolCall

SpecPool == InitPool /\ [][NextPool]_vars

\* The call's kernel, stride and padding per axis, and the output size
\* floor((in + 2 * padding - kernel) / stride) + 1 per axis.
PoolK == AsPair(args.kernel_size)
PoolS == AsPair(IF args.stride = None THEN args.kernel_size ELSE args.stride)
PoolP == AsPair(args.padding)
PoolOut(axis, in) == (in + 2 * PoolP[axis] - PoolK[axis]) \div PoolS[axis] + 1

\* The valid input indices of output cell i's window along an axis of length in.
ValidWindow(axis, in, i) ==
    {r \in 0..(in - 1) :
        i * PoolS[axis] - PoolP[axis] <= r /\ r < i * PoolS[axis] - PoolP[axis] + PoolK[axis]}

\* C7: with padding smaller than the kernel, max_pool2d returns
\* floor((in + 2*padding - kernel)/stride) + 1 cells per spatial axis, and
\* every cell is the maximum of the input over the part of its window that
\* lies in the input: a padded position is never a candidate.
C7_MaxPoolClamped ==
    (/\ args.op = "max_pool2d" /\ result # Pending
     /\ PoolP[1] < PoolK[1] /\ PoolP[2] < PoolK[2]
     /\ PoolOut(1, Height(args.x)) >= 0 /\ PoolOut(2, Width(args.x)) >= 0) =>
        /\ IsTensor(result)
        /\ result.shape = Leading(args.x)
                            \o <<PoolOut(1, Height(args.x)), PoolOut(2, Width(args.x))>>
        /\ \A idx \in Indices(result.shape) :
              LET lead == SubSeq(idx, 1, Len(idx) - 2)
                  cands == {args.x.data[lead \o <<r, c>>] :
                               r \in ValidWindow(1, Height(args.x), idx[Len(idx) - 1]),
                               c \in ValidWindow(2, Width(args.x), idx[Len(idx)])}
              IN  /\ result.data[idx] \in cands
                  /\ \A v \in cands : v <= result.data[idx]

\* An all-negative 4x4 input pooled with kernel 2, stride 2, padding 1: the
\* border windows reach into the padding.
C7_Witness ==
    /\ args.op = "max_pool2d" /\ IsTensor(result)
    /\ Height(args.x) = 4 /\ Width(args.x) = 4
    /\ args.kernel_size = PyInt(2) /\ args.stride = PyInt(2) /\ args.padding = PyInt(1)
    /\ \A idx \in Indices(args.x.shape) : args.x.data[idx] < 0
    /\ result.shape = Leading(args.x) \o <<3, 3>>

\* The call pools an all-ones 2x2 input with kernel 2, stride 1, padding 1.
OnesConfig ==
    /\ Height(args.x) = 2 /\ Width(args.x) = 2
    /\ \A idx \in Indices(args.x.shape) : args.x.data[idx] = 1
    /\ PoolK = <<2, 2>> /\ PoolS = <<1, 1>> /\ PoolP = <<1, 1>>

\* C8: on an all-ones 2x2 input with kernel 2, stride 1, padding 1,
\* avg_pool2d returns boundary cells strictly less than 1 and max_pool2d
\* returns exactly 1 in every cell.
C8_PaddingAsymmetry ==
    (result # Pending /\ args.op \in {"max_pool2d", "avg_pool2d"} /\ OnesConfig) =>
        /\ IsTensor(result)
        /\ result.shape = Leading(args.x) \o <<3, 3>>
        /\ \A idx \in Indices(result.shape) :
              IF args.op = "max_pool2d" THEN result.data[idx] = 1
              ELSE (idx[Len(idx) - 1] \in {0, 2} \/ idx[Len(idx)] \in {0, 2}) =>
                      RLess(result.data[idx], RInt(1))

C8_Witness ==
    /\ result # Pending /\ args.op = "avg_pool2d" /\ OnesConfig
    /\ args.kernel_size = PyInt(2) /\ args.stride = PyInt(1) /\ args.padding = PyInt(1)
    /\ IsTensor(result)
    /\ \E idx \in Indices(result.shape) : result.data[idx] = <<1, 4>>

(***************************************************************************)
(* _adaptive_avg_pool2d, _adaptive_max_pool2d                              *)
(*                                                                         *)
(* torch.linspace(0, n, o + 1)[i] is taken as the exact i * n / o: for the *)
(* sizes drawn here the float32 values floor and ceil to the same indices. *)
(***************************************************************************)
MaxAdaptDim == 3
MaxAdaptOut == 3

\* torch.linspace(start, end, steps)[i]
Linspace(start, end, steps, i) ==
    IF steps = 1 THEN start
    ELSE RAdd(start, RDiv(RMul(RInt(i), RSub(end, start)), RInt(steps - 1)))

\* x with slice(a1, b1) applied to axis ax and slice(a2, b2) to axis ax + 1
\* (axes counted from 0), every other axis kept whole.
SliceAxes(x, ax, a1, b1, a2, b2) ==
    LET s1 == PySlice(a1, b1, x.shape[ax + 1])
        s2 == PySlice(a2, b2, x.shape[ax + 2])
        lo1 == IF s1 = {} THEN 0 ELSE CHOOSE m \in s1 : \A e \in s1 : m <= e
        lo2 == IF s2 = {} THEN 0 ELSE CHOOSE m \in s2 : \A e \in s2 : m <= e
    IN  Tensor([x.shape EXCEPT ![ax + 1] = Cardinality(s1), ![ax + 2] = Cardinality(s2)],
               LAMBDA idx : x.data[[idx EXCEPT ![ax + 1] = @ + lo1, ![ax + 2] = @ + lo2]])

\* The elements t[lead, :, :].
Last2(t, lead) ==
    {lead \o <<r, c>> : r \in 0..(Height(t) - 1), c \in 0..(Width(t) - 1)}

\* torch.max(torch.max(t, dim=-2)[0], dim=-1)[0]; a reduced axis of length 0 raises
MaxLast2(t) ==
    IF Height(t) = 0 \/ Width(t) = 0 THEN Raise("RuntimeError")
    ELSE Tensor(Leading(t), LAMBDA lead : MaxOf({t.data[idx] : idx \in Last2(t, lead)}))

\* torch.mean(t, dim=(-2, -1))
MeanLast2(t) ==
    Tensor(Leading(t),
           LAMBDA lead : IF Last2(t, lead) = {} THEN <<0, 0>>
                         ELSE Rat(SumOver(Last2(t, lead), LAMBDA idx : t.data[idx]),
                                  Cardinality(Last2(t, lead))))

\* What output[..., i, j] = src stores: src broadcast to the shape of the
\* slot; a src that does not expand to it raises.
ExpandTo(src, shape) ==
    IF IsRaise(src) THEN src
    ELSE IF ~BroadcastOk(src.shape, shape) \/ BroadcastShape(src.shape, shape) # shape
    THEN Raise("RuntimeError")
    ELSE Tensor(shape, LAMBDA idx : src.data[BroadcastIndex(idx, src.shape)])

\* The output assembled from the value stored into each slot output[..., i, j];
\* the call raises if storing into any slot does.
Assemble(lead, out, Cell(_, _)) ==
    IF \E i \in 0..(out[1] - 1), j \in 0..(out[2] - 1) : IsRaise(Cell(i, j))
    THEN Raise("RuntimeError")
    ELSE Tensor(lead \o <<out[1], out[2]>>,
                LAMBDA idx : Cell(idx[Len(idx) - 1], idx[Len(idx)]).data[SubSeq(idx, 1, Len(idx) - 2)])

\* split[i].int().item() and split[i + 1].ceil().int().item()
BinStart(n, o, i) == RFloor(Linspace(RInt(0), RInt(n), o + 1, i))
BinStop(n, o, i) == RCeil(Linspace(RInt(0), RInt(n), o + 1, i + 1))

_adaptive_avg_pool2d(x, output_size_) ==
    LET output_size == AsPair(output_size_)
        cell(i, j) ==
            \* x[..., pos_h, pos_w]
            ExpandTo(MeanLast2(SliceAxes(x, Dim(x) - 2,
                                BinStart(Height(x), output_size[1], i),
                                BinStop(Height(x), output_size[1], i),
                                BinStart(Width(x), output_size[2], j),
                                BinStop(Width(x), output_size[2], j))),
                     Leading(x))
    IN  IF Dim(x) \notin {3, 4} THEN Raise("AssertionError")
        ELSE Assemble(Leading(x), output_size, cell)

_adaptive_max_pool2d(x, output_size_) ==
    LET output_size == AsPair(output_size_)
        cell(i, j) ==
            \* x[:, pos_h, pos_w]: the slices go to axes 1 and 2 whatever the rank
            ExpandTo(MaxLast2(SliceAxes(x, 1,
                                BinStart(Height(x), output_size[1], i),
                                BinStop(Height(x), output_size[1], i),
                                BinStart(Width(x), output_size[2], j),
                                BinStop(Width(x), output_size[2], j))),
                     Leading(x))
    IN  IF Dim(x) \notin {3, 4} THEN Raise("AssertionError")
        ELSE Assemble(Leading(x), output_size, cell)

OutputSizes == {PyInt(o) : o \in 1..MaxAdaptOut} \cup {PyTuple(<<1, 2>>), PyTuple(<<2, 1>>)}

AdaptInputs(shape) ==
    {Fill(shape, 1), Tensor(shape, LAMBDA idx : 0 - Offset(idx, shape) - 1)}

InitAdaptive ==
    /\ \E op \in {"adaptive_avg_pool2d", "adaptive_max_pool2d"},
          lead \in {<<1>>, <<2>>, <<1, 1>>, <<1, 2>>},
          h \in 1..MaxAdaptDim, w \in 1..MaxAdaptDim :
          \E x \in AdaptInputs(lead \o <<h, w>>), o \in OutputSizes :
             args = [op |-> op, x |-> x, output_size |-> o]
    /\ result = Pending
    /\ running_mean = <<>> /\ running_var = <<>> /\ ncalls = 0

AdaptiveAvgPoolCall ==
    /\ args.op = "adaptive_avg_pool2d" /\ result = Pending
    /\ result' = _adaptive_avg_pool2d(args.x, args.output_size)
    /\ UNCHANGED <<args, running_mean, running_var, ncalls>>

AdaptiveMaxPoolCall ==
    /\ args.op = "adaptive_max_pool2d" /\ result = Pending
    /\ result' = _adaptive_max_pool2d(args.x, args.output_size)
    /\ UNCHANGED <<args, running_mean, running_var, ncalls>>

NextAdaptive == AdaptiveAvgPoolCall \/ AdaptiveMaxPoolCall

SpecAdaptive == InitAdaptive /\ [][NextAdaptive]_vars

\* Bin i of an axis of length n split into o bins:
\* floor(i*n/o) .. ceil((i+1)*n/o) - 1.
Bin(n, o, i) == ((i * n) \div o)..(0 - ((0 - (i + 1) * n) \div o) - 1)

BinsWellFormed(n, o) ==
    /\ \A i \in 0..(o - 1) : Bin(n, o, i) # {}
    /\ UNION {Bin(n, o, i) : i \in 0..(o - 1)} = 0..(n - 1)
    /\ \A i \in 0..(o - 2) : Cardinality(Bin(n, o, i) \cap Bin(n, o, i + 1)) <= 1

\* The values of the input at one leading index over bin (i, j).
BinValues(idx) ==
    LET o == AsPair(args.output_size)
    IN  {<<r, c, args.x.data[SubSeq(idx, 1, Len(idx) - 2) \o <<r, c>>]>> :
            r \in Bin(Height(args.x), o[1], idx[Len(idx) - 1]),
            c \in Bin(Width(args.x), o[2], idx[Len(idx)])}

\* C9: for 3-D and 4-D inputs, output cell (i, j) of every leading index is
\* the mean, respectively the max, of that index's input over rows
\* floor(i*H/oh) .. ceil((i+1)*H/oh)-1 and the like columns; the bins are
\* non-empty, cover the axis and overlap by at most one element.
C9_AdaptiveBins ==
    (args.op \in {"adaptive_avg_pool2d", "adaptive_max_pool2d"} /\ result # Pending) =>
        LET o == AsPair(args.output_size)
        IN  /\ BinsWellFormed(Height(args.x), o[1])
            /\ BinsWellFormed(Width(args.x), o[2])
            /\ IsTensor(result)
            /\ result.shape = Leading(args.x) \o o
            /\ \A idx \in Indices(result.shape) :
                  IF args.op = "adaptive_max_pool2d"
                  THEN /\ \E e \in BinValues(idx) : e[3] = result.data[idx]
                       /\ \A e \in BinValues(idx) : e[3] <= result.data[idx]
                  ELSE result.data[idx] =
                          Rat(SumOver(BinValues(idx), LAMBDA e : e[3]),
                              Cardinality(BinValues(idx)))

\* The part of C9 the code meets: every case but the max pool of a 4-D input.
C9_ExceptMax4D ==
    (args.op = "adaptive_max_pool2d" /\ Dim(args.x) = 4) \/ C9_AdaptiveBins

(***************************************************************************)
(* _roi_align                                                              *)
(*                                                                         *)
(* boxes is a Python list [list |-> <<t1, ..., tn>>] of arrays of shape    *)
(* (NUMi, 4).  The boxes drawn have positive height and width.             *)
(***************************************************************************)
MaxImages == 2
MaxBoxes == 2
RoiDim == 3

PyList(seq) == [list |-> seq]

\* t[i] of an array
SubTensor(t, i) == Tensor(Tail(t.shape), LAMBDA idx : t.data[<<i>> \o idx])

\* v[i] of a list or an array; a 0-dim array cannot be indexed
PyIndex(v, i) ==
    IF IsRaise(v) THEN v
    ELSE IF "list" \in DOMAIN v
    THEN IF i < Len(v.list) THEN v.list[i + 1] ELSE Raise("IndexError")
    ELSE IF Dim(v) = 0 \/ i >= v.shape[1] THEN Raise("IndexError")
    ELSE SubTensor(v, i)

\* v.shape[0]; the shape of a 0-dim array is the empty tuple
Shape0(v) ==
    IF IsRaise(v) THEN v
    ELSE IF Dim(v) = 0 THEN Raise("IndexError")
    ELSE PyInt(v.shape[1])

\* torch.stack(output) of a list of arrays of one shape
Stack(output) ==
    IF output = <<>> THEN Raise("RuntimeError")
    ELSE Tensor(<<Len(output)>> \o output[1].shape,
                LAMBDA idx : output[idx[1] + 1].data[Tail(idx)])

\* t.long(): rounding toward zero
RTrunc(p) == IF p[1] >= 0 THEN RFloor(p) ELSE RCeil(p)

\* An index i on an axis of length n: negative indices count from the end.
WrapIndex(i, n) == IF i < 0 THEN i + n ELSE i

\* The bilinear sample of x (C, H, W) at channel c and the point (y, x_).
Bilinear(x, c, y, x_) ==
    LET i_f == RTrunc(y)
        j_f == RTrunc(x_)
        i_c == RCeil(y)
        j_c == RCeil(x_)
        u == RSub(y, RInt(i_f))
        v == RSub(x_, RInt(j_f))
        one == RInt(1)
        at(i, j) == RInt(x.data[<<c, WrapIndex(i, Height(x)), WrapIndex(j, Width(x))>>])
    IN  RAdd(RAdd(RMul(RMul(RSub(one, u), RSub(one, v)), at(i_f, j_f)),
                  RMul(RMul(RSub(one, u), v), at(i_f, j_c))),
             RAdd(RMul(RMul(u, RSub(one, v)), at(i_c, j_f)),
                  RMul(RMul(u, v), at(i_c, j_c))))

\* The sampling ratio per axis: the default (sampling_ratio <= 0) is
\* math.ceil(box_h / output_size[0]), math.ceil(box_w / output_size[1]).
SamplingRatio(box_h, box_w, output_size, sampling_ratio) ==
    IF "int" \in DOMAIN sampling_ratio
    THEN IF sampling_ratio.int <= 0
         THEN <<RCeil(RDiv(box_h, RInt(output_size[1]))),
                RCeil(RDiv(box_w, RInt(output_size[2])))>>
         ELSE <<sampling_ratio.int, sampling_ratio.int>>
    ELSE sampling_ratio.tuple

\* A variant that checks the top and left sides only.
BoxInBoundsTopLeft(x, box) ==
    /\ RLeq(RInt(0), box.data[<<1>>])
    /\ RLeq(RInt(0), box.data[<<0>>])

\* assert 0 <= top and bottom <= x.shape[-2] - 1 and 0 <= left and right <= x.shape[-1] - 1
BoxInBounds(x, box) ==
    /\ RLeq(RInt(0), box.data[<<1>>])
    /\ RLeq(box.data[<<3>>], RInt(Height(x) - 1))
    /\ RLeq(RInt(0), box.data[<<0>>])
    /\ RLeq(box.data[<<2>>], RInt(Width(x) - 1))

\* __roi_align: the pooled output (C, output_size[0], output_size[1]) of one box
__roi_align(x, box, output_size, sampling_ratio_) ==
    LET left == box.data[<<0>>]
        top == box.data[<<1>>]
        right == box.data[<<2>>]
        bottom == box.data[<<3>>]
        box_h == RSub(bottom, top)
        box_w == RSub(right, left)
        sampling_ratio == SamplingRatio(box_h, box_w, output_size, sampling_ratio_)
        bin_h == RDiv(box_h, RInt(output_size[1] * sampling_ratio[1]))
        bin_w == RDiv(box_w, RInt(output_size[2] * sampling_ratio[2]))
        half == Rat(1, 2)
        split_y(p) == Linspace(RAdd(top, RMul(bin_h, half)),
                               RSub(bottom, RMul(bin_h, half)),
                               output_size[1] * sampling_ratio[1], p)
        split_x(q) == Linspace(RAdd(left, RMul(bin_w, half)),
                               RSub(right, RMul(bin_w, half)),
                               output_size[2] * sampling_ratio[2], q)
        \* F.avg_pool2d(out, sampling_ratio): the mean of each block of samples
        block(i, j) == ((i * sampling_ratio[1])..((i + 1) * sampling_ratio[1] - 1))
                        \X ((j * sampling_ratio[2])..((j + 1) * sampling_ratio[2] - 1))
        \* the indices x[:, i, j] reads on an axis: i_f and i_c of every sample
        reads(split(_), steps) ==
            UNION {{RTrunc(split(p)), RCeil(split(p))} : p \in 0..(steps - 1)}
        inside(S, n) == \A i \in S : -n <= i /\ i < n
    IN  IF ~BoxInBounds(x, box)
        THEN Raise("AssertionError")
        ELSE IF ~(/\ inside(reads(split_y, output_size[1] * sampling_ratio[1]), Height(x))
                  /\ inside(reads(split_x, output_size[2] * sampling_ratio[2]), Width(x)))
        THEN Raise("IndexError")
        ELSE Tensor(<<x.shape[1], output_size[1], output_size[2]>>,
                    LAMBDA idx :
                        RDiv(RSumOver(block(idx[2], idx[3]),
                                      LAMBDA pq : Bilinear(x, idx[1], split_y(pq[1]), split_x(pq[2]))),
                             RInt(sampling_ratio[1] * sampling_ratio[2])))

\* for j in range(n): boxes = boxes[i][j]; ...: the loop variable `boxes`
\* is the name of the list the loops index, and is rebound by the first box.
RECURSIVE RoiAlignImages(_, _, _, _, _, _, _)
RECURSIVE RoiAlignBoxes(_, _, _, _, _, _, _, _, _)
RoiAlignBoxes(x, boxes, output_size, sampling_ratio, i, nimg, j, n, output) ==
    IF j = n THEN RoiAlignImages(x, boxes, output_size, sampling_ratio, i + 1, nimg, output)
    ELSE LET box == PyIndex(PyIndex(boxes, i), j)
             input_ == PyIndex(x, i)
             out == __roi_align(input_, box, output_size, sampling_ratio)
         IN  IF IsRaise(box) THEN box
             ELSE IF IsRaise(input_) THEN input_
             ELSE IF IsRaise(out) THEN out
             ELSE RoiAlignBoxes(x, box, output_size, sampling_ratio, i, nimg, j + 1, n,
                                Append(output, out))

\* for i in range(len(boxes)): for j in range(boxes[i].shape[0]): ...
RoiAlignImages(x, boxes, output_size, sampling_ratio, i, nimg, output) ==
    IF i = nimg THEN Stack(output)
    ELSE LET n == Shape0(PyIndex(boxes, i))
         IN  IF IsRaise(n) THEN n
             ELSE RoiAlignBoxes(x, boxes, output_size, sampling_ratio, i, nimg, 0, n.int, output)

_roi_align(x, boxes, output_size_, sampling_ratio) ==
    RoiAlignImages(x, boxes, AsPair(output_size_), sampling_ratio, 0, Len(boxes.list), <<>>)

\* F.adaptive_max_pool2d of the library on (C, H, W): output cell (i, j) is the
\* maximum over rows floor(i H / oh) .. ceil((i + 1) H / oh) - 1 and the like
\* columns; an input without elements raises.
F_adaptive_max_pool2d(x, output_size) ==
    IF Height(x) = 0 \/ Width(x) = 0 THEN Raise("RuntimeError")
    ELSE Tensor(Leading(x) \o output_size,
                LAMBDA idx :
                    LET i == idx[Len(idx) - 1]
                        j == idx[Len(idx)]
                        rows == ((i * Height(x)) \div output_size[1])
                                ..(-((-((i + 1) * Height(x))) \div output_size[1]) - 1)
                        cols == ((j * Width(x)) \div output_size[2])
                                ..(-((-((j + 1) * Width(x))) \div output_size[2]) - 1)
                    IN  MaxOf(Window(x, SubSeq(idx, 1, Len(idx) - 2), rows, cols)))

\* A variant whose slices stop at the rounded bottom and right (exclusive).
RoiRegionExclusive(input_, box) ==
    SliceAxes(input_, 1,
              RTrunc(box.data[<<1>>]), RCeil(box.data[<<3>>]),
              RTrunc(box.data[<<0>>]), RCeil(box.data[<<2>>]))

\* x[i, :, pos_h, pos_w] with pos_h = slice(top.int(), bottom.ceil().int() + 1),
\* pos_w = slice(left.int(), right.ceil().int() + 1)
RoiRegion(input_, box) ==
    SliceAxes(input_, 1,
              RTrunc(box.data[<<1>>]), RCeil(box.data[<<3>>]) + 1,
              RTrunc(box.data[<<0>>]), RCeil(box.data[<<2>>]) + 1)

RECURSIVE RoiPoolLoop(_, _, _, _, _, _)
RoiPoolLoop(x, boxes, output_size, i, j, output) ==
    IF i = Len(boxes.list) THEN Stack(output)
    ELSE IF j = boxes.list[i + 1].shape[1]
    THEN RoiPoolLoop(x, boxes, output_size, i + 1, 0, output)
    ELSE LET box == PyIndex(PyIndex(boxes, i), j)
             input_ == PyIndex(x, i)
             out == F_adaptive_max_pool2d(RoiRegion(input_, box), output_size)
         IN  IF ~BoxInBounds(x, box) THEN Raise("AssertionError")
             ELSE IF IsRaise(input_) THEN input_
             ELSE IF IsRaise(out) THEN out
             ELSE RoiPoolLoop(x, boxes, output_size, i, j + 1, Append(output, out))

_roi_pool(x, boxes, output_size_) ==
    RoiPoolLoop(x, boxes, AsPair(output_size_), 0, 0, <<>>)

\* Boxes (left, top, right, bottom) in half pixels, for a RoiDim x RoiDim
\* image: the whole image, three boxes inside it (one with fractional
\* sides, one of a single pixel row reaching the last column) and two boxes
\* that leave it (top < 0, right > W - 1).
RoiBoxes ==
    {<<0, 0, 2 * RoiDim - 2, 2 * RoiDim - 2>>, <<0, 0, 2, 2>>, <<1, 0, 3, 2>>,
     <<0, -1, 2, 2>>, <<0, 0, 2 * RoiDim - 1, 2>>}

\* The array (NUM, 4) of a sequence of boxes.
BoxTensor(bs) == Tensor(<<Len(bs), 4>>, LAMBDA idx : Rat(bs[idx[1] + 1][idx[2] + 1], 2))

\* Boxes per image: at most MaxBoxes in all.
BoxCounts(nimg) ==
    {c \in [1..nimg -> 0..MaxBoxes] : SumOver(1..nimg, LAMBDA i : c[i]) <= MaxBoxes}

\* The list of per-image arrays cut from the sequence flat by the counts c.
BoxList(c, flat) ==
    PyList([i \in 1..Len(c) |->
               BoxTensor(SubSeq(flat, SumOver(1..(i - 1), LAMBDA k : c[k]) + 1,
                                SumOver(1..i, LAMBDA k : c[k])))])

RoiImage(nimg) ==
    Tensor(<<nimg, 1, RoiDim, RoiDim>>,
           LAMBDA idx : (Offset(idx, <<nimg, 1, RoiDim, RoiDim>>)
                         * (Offset(idx, <<nimg, 1, RoiDim, RoiDim>>) + 3)) % 7)

RoiOutputSizes == {PyInt(1), PyTuple(<<2, 1>>), PyInt(RoiDim)}

InitRoi ==
    /\ \E nimg \in 1..MaxImages :
          \E c \in BoxCounts(nimg) :
             \E flat \in [1..SumOver(1..nimg, LAMBDA i : c[i]) -> RoiBoxes],
                o \in RoiOutputSizes :
                \/ \E sr \in {PyInt(-1), PyInt(2)} :
                      args = [op |-> "roi_align", x |-> RoiImage(nimg),
                              boxes |-> BoxList(c, flat),
                              output_size |-> o, sampling_ratio |-> sr]
                \/ args = [op |-> "roi_pool", x |-> RoiImage(nimg),
                           boxes |-> BoxList(c, flat), output_size |-> o]
    /\ result = Pending
    /\ running_mean = <<>> /\ running_var = <<>> /\ ncalls = 0

RoiAlignCall ==
    /\ args.op = "roi_align" /\ result = Pending
    /\ result' = _roi_align(args.x, args.boxes, args.output_size, args.sampling_ratio)
    /\ UNCHANGED <<args, running_mean, running_var, ncalls>>

RoiPoolCall ==
    /\ args.op = "roi_pool" /\ result = Pending
    /\ result' = _roi_pool(args.x, args.boxes, args.output_size)
    /\ UNCHANGED <<args, running_mean, running_var, ncalls>>

NextRoi == RoiAlignCall \/ RoiPoolCall

SpecRoi == InitRoi /\ [][NextRoi]_vars

\* The boxes of a call as <<image, box>> in image-then-box order.
RECURSIVE BoxOrder(_, _)
BoxOrder(boxes, i) ==
    IF i = Len(boxes.list) THEN <<>>
    ELSE [j \in 1..boxes.list[i + 1].shape[1] |-> <<i, SubTensor(boxes.list[i + 1], j - 1)>>]
         \o BoxOrder(boxes, i + 1)

\* A box with top < 0, left < 0, bottom > H - 1 or right > W - 1.
OutOfRange(x, box) ==
    \/ RLess(box.data[<<1>>], RInt(0))
    \/ RLess(box.data[<<0>>], RInt(0))
    \/ RLess(RInt(x.shape[Len(x.shape) - 1] - 1), box.data[<<3>>])
    \/ RLess(RInt(x.shape[Len(x.shape)] - 1), box.data[<<2>>])

CallOrder == BoxOrder(args.boxes, 0)

AllInRange == \A k \in 1..Len(CallOrder) : ~OutOfRange(args.x, CallOrder[k][2])

\* C10: for any list of in-bounds boxes roi_align returns one pooled output
\* per box, stacked in image-then-box order, each computed from that box's
\* own coordinates and, when sampling_ratio <= 0, its own default ratio.
C10_OneOutputPerBox ==
    (args.op = "roi_align" /\ result # Pending /\ CallOrder # <<>> /\ AllInRange) =>
        /\ IsTensor(result)
        /\ result.shape[1] = Len(CallOrder)
        /\ \A k \in 1..Len(CallOrder) :
              SubTensor(result, k - 1) =
                  __roi_align(SubTensor(args.x, CallOrder[k][1]), CallOrder[k][2],
                              AsPair(args.output_size), args.sampling_ratio)

\* The part of C10 the code meets: one box in all, held by the last image.
C10_SingleBox ==
    (args.op = "roi_align" /\ result # Pending /\ Len(CallOrder) = 1 /\ AllInRange
     /\ CallOrder[1][1] = Len(args.boxes.list) - 1) =>
        /\ IsTensor(result)
        /\ result.shape[1] = 1
        /\ SubTensor(result, 0) =
              __roi_align(SubTensor(args.x, CallOrder[1][1]), CallOrder[1][2],
                          AsPair(args.output_size), args.sampling_ratio)

\* Every call with two or more boxes, or with a box before the last image, raises.
C10_OtherCallsRaise ==
    (args.op = "roi_align" /\ result # Pending
     /\ (Len(CallOrder) # 1 \/ CallOrder[1][1] # Len(args.boxes.list) - 1)) =>
        IsRaise(result)

\* The rows (or columns) of the input that cell o of n output cells pools,
\* for a box side from lo to hi: the inclusive integer-rounded side
\* floor(lo)..ceil(hi), cut into n adaptive bins.
RegionBin(lo, hi, n, o) ==
    LET first == RFloor(lo)
        len == RCeil(hi) - first + 1
    IN  (first + (o * len) \div n)..(first - ((-((o + 1) * len)) \div n) - 1)

\* C11: roi_pool returns one entry per box in image-then-box order; entry k
\* is, per channel, the adaptive max pool to output_size of the image of the
\* k-th box sliced to the box's inclusive integer-rounded region; one box
\* equal to the whole image with output_size the image size returns the input.
C11_RoiPoolPerBox ==
    (args.op = "roi_pool" /\ result # Pending /\ CallOrder # <<>> /\ AllInRange) =>
        LET out == AsPair(args.output_size)
        IN  /\ IsTensor(result)
            /\ result.shape = <<Len(CallOrder), args.x.shape[2], out[1], out[2]>>
            /\ \A k \in 1..Len(CallOrder), c \in 0..(args.x.shape[2] - 1),
                  oi \in 0..(out[1] - 1), oj \in 0..(out[2] - 1) :
                  LET box == CallOrder[k][2].data
                  IN  result.data[<<k - 1, c, oi, oj>>] =
                          MaxOf({args.x.data[<<CallOrder[k][1], c, r, q>>] :
                                    r \in RegionBin(box[<<1>>], box[<<3>>], out[1], oi),
                                    q \in RegionBin(box[<<0>>], box[<<2>>], out[2], oj)})
            /\ (/\ Len(CallOrder) = 1 /\ Len(args.boxes.list) = 1
                /\ CallOrder[1][2].data = (<<0>> :> RInt(0) @@ <<1>> :> RInt(0)
                                           @@ <<2>> :> RInt(RoiDim - 1) @@ <<3>> :> RInt(RoiDim - 1))
                /\ out = <<RoiDim, RoiDim>>) => result = args.x

\* roi_pool has returned for two images that hold a box each.
C11_Witness ==
    /\ args.op = "roi_pool" /\ IsTensor(result)
    /\ Len(args.boxes.list) = 2
    /\ \A i \in 1..2 : args.boxes.list[i].shape[1] >= 1
    /\ result.shape[1] >= 2

\* roi_pool has returned its input for the whole-image box.
C11_IdentityReached ==
    /\ args.op = "roi_pool" /\ result = args.x

C12_AlignAssertReached ==
    /\ args.op = "roi_align" /\ result = Raise("AssertionError")

(***************************************************************************)
(* _nearest_interpolate                                                    *)
(*                                                                         *)
(* A call passes x and output_size and a set kwargs of further keyword     *)
(* arguments <<name, value>>.                                              *)
(***************************************************************************)
MaxInterpIn == 3
MaxInterpOut == 4

\* t.round(): to the nearest integer, a tie to the even one
RRound(p) ==
    LET f == RFloor(p)
        twice == RSub(RMul(RInt(2), p), RInt(2 * f))
    IN  IF twice[1] < twice[2] THEN f
        ELSE IF twice[1] > twice[2] THEN f + 1
        ELSE IF f % 2 = 0 THEN f ELSE f + 1

\* def _nearest_interpolate(x, output_size): the keywords a call may pass
NearestParams == {"x", "output_size"}

\* split[i] of torch.linspace(-0.5 + h / 2, in - 0.5 - h / 2, out), h = in / out
AreaSplit(in, out, i) ==
    LET h == Rat(in, out)
        half == Rat(1, 2)
    IN  Linspace(RSub(RMul(h, half), half),
                 RSub(RSub(RInt(in), half), RMul(h, half)), out, i)

\* x[..., rows, cols] for index grids given per output row and column
Gather(x, output_size, row(_), col(_)) ==
    IF \E i \in 0..(output_size[1] - 1), j \in 0..(output_size[2] - 1) :
          \/ row(i) < -Height(x) \/ row(i) >= Height(x)
          \/ col(j) < -Width(x) \/ col(j) >= Width(x)
    THEN Raise("IndexError")
    ELSE Tensor(Leading(x) \o output_size,
                LAMBDA idx :
                    x.data[SubSeq(idx, 1, Len(idx) - 2)
                           \o <<WrapIndex(row(idx[Len(idx) - 1]), Height(x)),
                                WrapIndex(col(idx[Len(idx)]), Width(x))>>])

_nearest_interpolate(x, output_size_, kwargs) ==
    LET output_size == AsPair(output_size_)
        row(i) == RRound(AreaSplit(Height(x), output_size[1], i))
        col(j) == RRound(AreaSplit(Width(x), output_size[2], j))
    IN  IF ~({kv[1] : kv \in kwargs} \subseteq NearestParams) THEN Raise("TypeError")
        ELSE IF Dim(x) \notin {3, 4} THEN Raise("AssertionError")
        ELSE Gather(x, output_size, row, col)

InterpShapes ==
    {lead \o <<h, w>> : lead \in {<<>>, <<2>>, <<1, 2>>},
                        h \in 1..MaxInterpIn, w \in 1..MaxInterpIn}

InterpOutputSizes ==
    {PyInt(o) : o \in 1..MaxInterpOut} \cup {PyTuple(<<1, 2>>), PyTuple(<<MaxInterpOut, 1>>)}

InitNearest ==
    /\ \E shape \in InterpShapes, o \in InterpOutputSizes,
          kwargs \in {{}, {<<"align_corners", TRUE>>}, {<<"align_corners", FALSE>>}} :
          args = [op |-> "nearest_interpolate",
                  x |-> Tensor(shape, LAMBDA idx : Offset(idx, shape)),
                  output_size |-> o, kwargs |-> kwargs]
    /\ result = Pending
    /\ running_mean = <<>> /\ running_var = <<>> /\ ncalls = 0

NearestInterpolateCall ==
    /\ args.op = "nearest_interpolate" /\ result = Pending
    /\ result' = _nearest_interpolate(args.x, args.output_size, args.kwargs)
    /\ UNCHANGED <<args, running_mean, running_var, ncalls>>

SpecNearest == InitNearest /\ [][NearestInterpolateCall]_vars

Clamp(p, lo, hi) == IF RLess(p, RInt(lo)) THEN RInt(lo) ELSE IF RLess(RInt(hi), p) THEN RInt(hi) ELSE p

\* The source index of output coordinate i under a convention: corner-aligned
\* (evenly spaced from 0 to in - 1) or area-aligned (pixels as unit squares,
\* offset by half the inverse scale step, clamped to [0, in - 1]), rounded.
SourceIndex(corners, in, out, i) ==
    IF corners THEN RRound(Linspace(RInt(0), RInt(in - 1), out, i))
    ELSE RRound(Clamp(RAdd(RSub(Rat(in, 2 * out), Rat(1, 2)),
                           IF out = 1 THEN RInt(0)
                           ELSE RMul(RInt(i), RDiv(RSub(RInt(in), Rat(in, out)), RInt(out - 1)))),
                      0, in - 1))

\* The result gathers x at the source indices of a convention, all in range.
GathersBy(corners) ==
    LET out == AsPair(args.output_size)
        x == args.x
    IN  /\ IsTensor(result)
        /\ result.shape = Leading(x) \o out
        /\ \A idx \in DOMAIN result.data :
              LET r == SourceIndex(corners, Height(x), out[1], idx[Len(idx) - 1])
                  q == SourceIndex(corners, Width(x), out[2], idx[Len(idx)])
              IN  /\ r \in 0..(Height(x) - 1) /\ q \in 0..(Width(x) - 1)
                  /\ result.data[idx] = x.data[SubSeq(idx, 1, Len(idx) - 2) \o <<r, q>>]

NearestDone == args.op = "nearest_interpolate" /\ result # Pending /\ Dim(args.x) \in {3, 4}

\* C13: nearest-neighbour resampling gathers the input at the rounded source
\* index of the convention an align_corners flag selects, corner-aligned or
\* area-aligned, and the index lies in [0, in - 1].
C13_NearestConventions ==
    \A flag \in BOOLEAN :
        (NearestDone /\ <<"align_corners", flag>> \in args.kwargs) => GathersBy(flag)

\* A call without the flag gathers by the area-aligned convention.
C13_AreaAlignedOnly ==
    (NearestDone /\ args.kwargs = {}) => GathersBy(FALSE)

\* A call that passes the flag raises TypeError.
C13_FlagRejected ==
    (NearestDone /\ args.kwargs # {}) => result = Raise("TypeError")

\* The two conventions give different results for some call.
C13_ConventionsDiffer ==
    NearestDone /\ args.kwargs = {} /\ ~GathersBy(TRUE)

(***************************************************************************)
(* _dropout                                                                *)
(*                                                                         *)
(* Arrays are objects: heap maps an object's identity to its array and an  *)
(* argument or return value is a reference [ref |-> identity].  rand is    *)
(* the sample torch.rand returns if the call draws one.                    *)
(***************************************************************************)
MaxDropDim == 2

Ref(id) == [ref |-> id]

\* A new array object
NewObject(heap, t) == (Cardinality(DOMAIN heap) + 1) :> t @@ heap

\* not v for a Python float
NotFloat(v) == v[1] = 0

\* A variant that looks at the training flag only.
DropoutTrainingOnly(heap, x, drop_p, training, rand) ==
    IF ~training
    THEN [value |-> x, heap |-> heap, rand |-> None]
    ELSE LET keep_p == RSub(RInt(1), drop_p)
             t == heap[x.ref]
             out == Tensor(t.shape,
                           LAMBDA idx : RMul(RDiv(RInt(t.data[idx]), keep_p),
                                             RInt(RFloor(RAdd(keep_p, rand[idx])))))
         IN  [value |-> Ref(Cardinality(DOMAIN heap) + 1),
              heap |-> NewObject(heap, out), rand |-> rand]

_dropout(heap, x, drop_p, training, rand) ==
    IF ~training \/ NotFloat(drop_p)
    THEN [value |-> x, heap |-> heap, rand |-> None]
    ELSE LET keep_p == RSub(RInt(1), drop_p)
             t == heap[x.ref]
             \* keep_tensors = torch.floor(keep_p + torch.rand(x.shape))
             out == Tensor(t.shape,
                           LAMBDA idx : RMul(RDiv(RInt(t.data[idx]), keep_p),
                                             RInt(RFloor(RAdd(keep_p, rand[idx])))))
         IN  [value |-> Ref(Cardinality(DOMAIN heap) + 1),
              heap |-> NewObject(heap, out), rand |-> rand]

DropProbabilities == {Rat(0, 1), Rat(1, 4), Rat(1, 2)}

\* torch.rand(shape): uniform samples of [0, 1)
RandomSamples(shape) == [Indices(shape) -> {Rat(1, 8), Rat(3, 8), Rat(7, 8)}]

InitDropout ==
    /\ \E n \in 1..MaxDropDim, in \in 1..MaxDropDim, seed \in {-1, 1},
          drop_p \in DropProbabilities, training \in BOOLEAN :
          args = [op |-> "dropout", x |-> Ref(1),
                  heap |-> (1 :> Fill(<<n, in>>, seed)),
                  drop_p |-> drop_p, training |-> training]
    /\ result = Pending
    /\ running_mean = <<>> /\ running_var = <<>> /\ ncalls = 0

DropoutCall ==
    /\ args.op = "dropout" /\ result = Pending
    /\ \E rand \in RandomSamples(args.heap[args.x.ref].shape) :
          result' = _dropout(args.heap, args.x, args.drop_p, args.training, rand)
    /\ UNCHANGED <<args, running_mean, running_var, ncalls>>

SpecDropout == InitDropout /\ [][DropoutCall]_vars

DropoutDone == args.op = "dropout" /\ result # Pending

\* C14: when training is false or the drop probability is zero, dropout
\* returns the very input array: the same object, its values as they were,
\* and no mask drawn.
C14_DropoutIdentity ==
    (DropoutDone /\ (~args.training \/ args.drop_p = Rat(0, 1))) =>
        /\ result.value = args.x
        /\ result.heap = args.heap
        /\ result.rand = None

\* dropout has returned in training mode with drop probability zero.
C14_Witness ==
    DropoutDone /\ args.training /\ args.drop_p = Rat(0, 1) /\ result.value = args.x

\* dropout has returned outside training with a positive drop probability.
C14_InferenceReached ==
    DropoutDone /\ ~args.training /\ args.drop_p # Rat(0, 1) /\ result.value = args.x

\* In training with a positive drop probability the result is a new array
\* whose elements are 0 or x / (1 - drop_p).
C14_TrainingMasks ==
    (DropoutDone /\ args.training /\ args.drop_p # Rat(0, 1)) =>
        /\ result.value # args.x
        /\ result.heap[args.x.ref] = args.heap[args.x.ref]
        /\ \A idx \in DOMAIN args.heap[args.x.ref].data :
              result.heap[result.value.ref].data[idx]
                  \in {RInt(0), RDiv(RInt(args.heap[args.x.ref].data[idx]),
                                     RSub(RInt(1), args.drop_p))}

(***************************************************************************)
(* _conv2d and __conv2d                                                    *)
(*                                                                         *)
(* x is (N, Cin, H, W), weight (Cout, K_Cin, KH, KW), bias None or (Cout,).*)
(***************************************************************************)
MaxConvBatch == 1
MaxConvChannels == 2
MaxConvDim == 3

\* _zero_padding2d: zeros of (N, Cin, H + 2 padding, W + 2 padding) with
\* output[:, :, padding:h_out - padding, padding:w_out - padding] = x
_zero_padding2d(x, padding) ==
    LET h_out == x.shape[3] + 2 * padding
        w_out == x.shape[4] + 2 * padding
    IN  Tensor(<<x.shape[1], x.shape[2], h_out, w_out>>,
               LAMBDA idx :
                   IF /\ idx[3] \in PySlice(padding, h_out - padding, h_out)
                      /\ idx[4] \in PySlice(padding, w_out - padding, w_out)
                   THEN x.data[<<idx[1], idx[2], idx[3] - padding, idx[4] - padding>>]
                   ELSE 0)

\* The index a broadcast axis of the given size reads for position c.
Broadcast1(c, size) == IF size = 1 THEN 0 ELSE c

\* bias if bias is not None else 0, at output channel co
BiasAt(bias, co) == IF bias # None THEN bias.data[<<co>>] ELSE 0

_conv2d(x_, weight, bias, stride, padding) ==
    LET x == IF padding # 0 THEN _zero_padding2d(x_, padding) ELSE x_
        kernel_size == <<weight.shape[3], weight.shape[4]>>
        output_h == (x.shape[3] - kernel_size[1]) \div stride + 1
        output_w == (x.shape[4] - kernel_size[2]) \div stride + 1
        \* x[:, None, :, h_pos, w_pos] * weight[None, :, :, :, :] summed over
        \* dim=(-3, -2, -1); the channel axes broadcast against each other
        channels == 0..(Max2(x.shape[2], weight.shape[2]) - 1)
        cell(n, co, i, j) ==
            SumOver(channels \X (0..(kernel_size[1] - 1)) \X (0..(kernel_size[2] - 1)),
                    LAMBDA t : x.data[<<n, Broadcast1(t[1], x.shape[2]),
                                        i * stride + t[2], j * stride + t[3]>>]
                               * weight.data[<<co, Broadcast1(t[1], weight.shape[2]), t[2], t[3]>>])
            + BiasAt(bias, co)
    IN  IF output_h < 0 \/ output_w < 0 THEN Raise("RuntimeError")
        ELSE IF /\ output_h > 0 /\ output_w > 0
                /\ ~BroadcastOk(<<x.shape[2]>>, <<weight.shape[2]>>)
        THEN Raise("RuntimeError")
        ELSE Tensor(<<x.shape[1], weight.shape[1], output_h, output_w>>,
                    LAMBDA idx : cell(idx[1], idx[2], idx[3], idx[4]))

\* A variant that reads every group's input from the first group's channels.
GroupedCellFirstGroup(x, weight, bias, stride, dilation, groups, n, co, i, j) ==
    SumOver((0..(weight.shape[2] - 1)) \X (0..(weight.shape[3] - 1)) \X (0..(weight.shape[4] - 1)),
            LAMBDA t : x.data[<<n, t[1], i * stride[1] + t[2] * dilation[1],
                                j * stride[2] + t[3] * dilation[2]>>]
                       * weight.data[<<co, t[1], t[2], t[3]>>])
    + BiasAt(bias, co)

\* output[:, cout_pos, i, j] at batch n and output channel co: the sum over
\* x[:, None, cin_pos, h_pos, w_pos] * weight[None, cout_pos, :, :, :] of
\* the group g whose cout_pos holds co, plus bias[cout_pos]
\* (h_pos = slice(h_start, h_start + kernel_size[0], dilation[0]) holds the
\* rows h_start + kh dilation[0], kh < KH).
GroupedCell(x, weight, bias, stride, dilation, groups, n, co, i, j) ==
    LET g == CHOOSE k \in 0..(groups - 1) :
                 co \in PySlice((weight.shape[1] \div groups) * k,
                                (weight.shape[1] \div groups) * (k + 1), weight.shape[1])
        cin_pos == PySlice(weight.shape[2] * g, weight.shape[2] * (g + 1), x.shape[2])
        cin0 == weight.shape[2] * g
    IN  SumOver((0..(Cardinality(cin_pos) - 1)) \X (0..(weight.shape[3] - 1))
                    \X (0..(weight.shape[4] - 1)),
                LAMBDA t : x.data[<<n, cin0 + t[1], i * stride[1] + t[2] * dilation[1],
                                    j * stride[2] + t[3] * dilation[2]>>]
                           * weight.data[<<co, t[1], t[2], t[3]>>])
        + BiasAt(bias, co)

__conv2d(x_, weight, bias, stride_, padding_, dilation_, groups) ==
    LET stride == AsPair(stride_)
        \* (left, right, top, bottom)
        padding == IF "int" \in DOMAIN padding_
                   THEN <<padding_.int, padding_.int, padding_.int, padding_.int>>
                   ELSE <<padding_.tuple[2], padding_.tuple[2],
                          padding_.tuple[1], padding_.tuple[1]>>
        dilation == AsPair(dilation_)
        x == F_pad(x_, padding[1], padding[2], padding[3], padding[4])
        kernel_size == <<dilation[1] * (weight.shape[3] - 1) + 1,
                         dilation[2] * (weight.shape[4] - 1) + 1>>
        output_h == (x.shape[3] - kernel_size[1]) \div stride[1] + 1
        output_w == (x.shape[4] - kernel_size[2]) \div stride[2] + 1
    IN  IF x_.shape[2] # weight.shape[2] * groups THEN Raise("AssertionError")
        ELSE IF weight.shape[1] % groups # 0 THEN Raise("AssertionError")
        ELSE IF output_h < 0 \/ output_w < 0 THEN Raise("RuntimeError")
        ELSE Tensor(<<x.shape[1], weight.shape[1], output_h, output_w>>,
                    LAMBDA idx : GroupedCell(x, weight, bias, stride, dilation, groups,
                                             idx[1], idx[2], idx[3], idx[4]))

\* <<stride, padding, dilation>> of a call
ConvConfigs ==
    {<<PyInt(1), PyInt(0), PyInt(1)>>, <<PyInt(2), PyInt(0), PyInt(1)>>,
     <<PyInt(1), PyInt(1), PyInt(1)>>, <<PyInt(2), PyInt(1), PyInt(1)>>,
     <<PyInt(1), PyInt(1), PyInt(2)>>, <<PyInt(2), PyInt(1), PyInt(2)>>,
     <<PyTuple(<<1, 2>>), PyTuple(<<1, 0>>), PyInt(1)>>,
     <<PyInt(1), PyTuple(<<0, 1>>), PyTuple(<<2, 1>>)>>}

ConvKernels == {<<1, 1>>, <<2, 1>>, <<2, 2>>}

ConvInput(shape) == Tensor(shape, LAMBDA idx : ((Offset(idx, shape) * 3) % 5) - 2)
ConvWeight(shape) == Tensor(shape, LAMBDA idx : 1 - (Offset(idx, shape) % 3))
ConvBiases(cout) == {None, Tensor(<<cout>>, LAMBDA idx : idx[1])}

InitConv ==
    /\ \E n \in 1..MaxConvBatch, cin \in 1..MaxConvChannels, cout \in 1..MaxConvChannels,
          k_cin \in 1..MaxConvChannels, d \in 2..MaxConvDim, k \in ConvKernels,
          cfg \in ConvConfigs :
          \E bias \in ConvBiases(cout) :
             \/ /\ \A v \in 1..2 : "int" \in DOMAIN cfg[v]
                /\ cfg[3] = PyInt(1)
                /\ args = [op |-> "conv2d", x |-> ConvInput(<<n, cin, d, d>>),
                           weight |-> ConvWeight(<<cout, k_cin>> \o k), bias |-> bias,
                           stride |-> cfg[1], padding |-> cfg[2]]
             \/ \E groups \in 1..MaxConvChannels :
                   args = [op |-> "__conv2d", x |-> ConvInput(<<n, cin, d, d>>),
                           weight |-> ConvWeight(<<cout, k_cin>> \o k), bias |-> bias,
                           stride |-> cfg[1], padding |-> cfg[2], dilation |-> cfg[3],
                           groups |-> groups]
    /\ result = Pending
    /\ running_mean = <<>> /\ running_var = <<>> /\ ncalls = 0

Conv2dCall ==
    /\ args.op = "conv2d" /\ result = Pending
    /\ result' = _conv2d(args.x, args.weight, args.bias, args.stride.int, args.padding.int)
    /\ UNCHANGED <<args, running_mean, running_var, ncalls>>

GroupedConv2dCall ==
    /\ args.op = "__conv2d" /\ result = Pending
    /\ result' = __conv2d(args.x, args.weight, args.bias, args.stride, args.padding,
                          args.dilation, args.groups)
    /\ UNCHANGED <<args, running_mean, running_var, ncalls>>

NextConv == Conv2dCall \/ GroupedConv2dCall

SpecConv == InitConv /\ [][NextConv]_vars

\* t with the positions lo .. lo + len - 1 of axis ax (counted from 1) kept
SliceAxis(t, ax, lo, len) ==
    IF t = None THEN None
    ELSE Tensor([t.shape EXCEPT ![ax] = len], LAMBDA idx : t.data[[idx EXCEPT ![ax] = @ + lo]])

GroupedDone == args.op = "__conv2d" /\ result # Pending

\* The arguments have the documented shapes for the groups of the call.
GroupsDivide ==
    /\ args.x.shape[2] % args.groups = 0
    /\ args.weight.shape[1] % args.groups = 0
    /\ args.weight.shape[2] = args.x.shape[2] \div args.groups

\* With groups = 1, dilation = 1 and integer stride and padding the grouped
\* convolution returns what the simple convolution returns.
GeneralizesSimple ==
    (/\ args.groups = 1 /\ args.dilation = PyInt(1)
     /\ "int" \in DOMAIN args.stride /\ "int" \in DOMAIN args.padding
     /\ args.weight.shape[2] = args.x.shape[2]) =>
        result = _conv2d(args.x, args.weight, args.bias, args.stride.int, args.padding.int)

\* The output channels of group g are those of a convolution of the group's
\* input channels with the group's weights and biases.
GroupsIndependent ==
    (GroupsDivide /\ IsTensor(result)) =>
        LET k_cin == args.weight.shape[2]
            k_cout == args.weight.shape[1] \div args.groups
        IN  /\ k_cout * args.groups = result.shape[2]
            /\ \A g \in 0..(args.groups - 1) :
                  SliceAxis(result, 2, g * k_cout, k_cout) =
                      __conv2d(SliceAxis(args.x, 2, g * k_cin, k_cin),
                               SliceAxis(args.weight, 1, g * k_cout, k_cout),
                               SliceAxis(args.bias, 1, g * k_cout, k_cout),
                               args.stride, args.padding, args.dilation, 1)

\* A one-channel input with a 1x1 weight of 1, no or zero bias, stride 1,
\* padding 0, groups 1.
UnitKernel ==
    /\ args.x.shape[2] = 1
    /\ args.weight = [shape |-> <<1, 1, 1, 1>>, data |-> (<<0, 0, 0, 0>> :> 1)]
    /\ args.bias \in {None, [shape |-> <<1>>, data |-> (<<0>> :> 0)]}
    /\ args.stride = PyInt(1) /\ args.padding = PyInt(0) /\ args.dilation = PyInt(1)
    /\ args.groups = 1

C15_SimpleCaseReached ==
    /\ GroupedDone /\ IsTensor(result)
    /\ args.groups = 1 /\ args.dilation = PyInt(1)
    /\ args.stride = PyInt(2) /\ args.padding = PyInt(1)
    /\ args.x.shape[2] = 2 /\ args.weight.shape[2] = 2 /\ args.bias # None
    /\ result.shape[3] > 1

\* The grouped convolution has returned for the unit kernel.
C15_UnitKernelReached ==
    GroupedDone /\ UnitKernel /\ result = args.x

====
